---- MODULE Spec2Model ----
(***************************************************************************)
(* LayerTracing (services/surfaceflinger/Tracing/LayerTracing.cpp): the    *)
(* enable/disable/flush controller of the layers trace, the lock that      *)
(* serialises it, and the byte-bounded RingBuffer it owns.                 *)
(*                                                                         *)
(* Every public method is a call of one thread: the thread calls           *)
(* (Call), takes mTraceLock (Acquire), runs the method body in one or more *)
(* steps, and leaves the method (Release), which is where the scoped_lock  *)
(* is destroyed.  The return value is visible in ret[t] from the end of    *)
(* the body until the thread leaves.                                       *)
(*                                                                         *)
(* Spec has the nine locked methods.  SpecFair adds fair scheduling;       *)
(* SpecDrain records what appendToStream drained; SpecClocks lets the wall *)
(* clock be set and SpecFrames lets the compositor change frame while the  *)
(* methods run; SpecRace adds getFlags(), which takes no lock.             *)
(***************************************************************************)
EXTENDS Integers, Sequences, FiniteSets, TLC

\* ------------------------------------------------------------------ bounds
NumProducers == 1
MaxNotify == 3

\* The producer threads call notify only; the control thread calls any method.
Producers == 1..NumProducers
Control == NumProducers + 1
Threads == Producers \cup {Control}

\* ------------------------------------------------------- program constants
TRACE_COMPOSITION == 4
TRACE_HWC == 16
TRACE_BUFFERS == 32
MAGIC_NUMBER_L == 1414682956
MAGIC_NUMBER_H == 1162035538

\* Values the callers pass.
FlagInputs == {TRACE_COMPOSITION, TRACE_BUFFERS + TRACE_HWC}
SizeInputs == {2, 4}
EntrySizes == {1, 3}
RealtimeClock == {9, 1}
MonotonicClock == {5}
FrameInputs == {[time |-> 100, vsyncId |-> 7], [time |-> 200, vsyncId |-> 8]}
\* Every combination of TRACE_HWC and TRACE_COMPOSITION.
FrameFlagInputs == {TRACE_COMPOSITION, TRACE_COMPOSITION + TRACE_HWC, TRACE_BUFFERS,
                    TRACE_BUFFERS + TRACE_HWC}

Ops == {"enable", "disable", "appendToStream", "isEnabled", "writeToFile",
        "setTraceFlags", "setBufferSize", "dump", "notify"}

VARIABLES
    realtimeNow,         \* environment: the SYSTEM_TIME_REALTIME clock
    frame,               \* environment: time and vsync id of the current frame
    mEnabled,            \* LayerTracing::mEnabled
    mFlags,              \* LayerTracing::mFlags
    mBufferSizeInBytes,  \* LayerTracing::mBufferSizeInBytes
    mTraceLock,          \* the set of threads that hold it: {} when free
    mStorage,            \* RingBuffer: the entries, oldest first
    mUsedInBytes,        \* RingBuffer: running total of the entries' sizes
    mSizeInBytes,        \* RingBuffer: capacity in bytes
    pc,                  \* per thread: where it is in its call
    op,                  \* per thread: the method it is calling
    ret,                 \* per thread: the value the call returns
    visibleRegionDirty,  \* per thread: notify's first parameter
    frameArg,            \* per thread: notify's time and vsyncId parameters
    entry,               \* per thread: notify's local LayersTraceProto
    flushed,             \* per thread: what its call wrote to the destination
    ticket,              \* per thread: rank of its notify in lock order
    fileProto,           \* per thread: the local LayersTraceFileProto
    clockRead,           \* per thread: what systemTime() returned to it
    flagsRead,           \* per thread: what getFlags() read, {} before the read
    nextSeq,             \* history: notify calls that have taken the lock
    admitted,            \* history: entries emplaced since the last reset
    enableMark,          \* history: nextSeq at the last successful enable
    installedCap,        \* history: capacity the last successful enable set
    drainMark            \* history: newest entry that an appendToStream drained

vars == <<realtimeNow, frame, frameArg, mEnabled, mFlags, mBufferSizeInBytes,
          mTraceLock, mStorage,
          mUsedInBytes, mSizeInBytes, pc, op, ret, visibleRegionDirty, entry,
          flushed, ticket, fileProto, clockRead, flagsRead, nextSeq, admitted,
          enableMark, installedCap, drainMark>>

ctl == <<mEnabled, mFlags, mBufferSizeInBytes>>
buf == <<mStorage, mUsedInBytes, mSizeInBytes>>
hist == <<nextSeq, admitted, enableMark, installedCap, drainMark>>
header == <<fileProto, clockRead>>
env == <<realtimeNow, frame>>
locals == <<visibleRegionDirty, frameArg, entry, flushed, ticket, header, flagsRead>>

NoEntry == [seq |-> 0, size |-> 0, where |-> "", hwc_blob |-> FALSE,
            excludes_composition_state |-> FALSE,
            elapsed_realtime_nanos |-> 0, vsync_id |-> 0]
NoFrame == [time |-> 0, vsyncId |-> 0]
NoFlush == [status |-> "none", entries |-> <<>>]
NoProto == [magic_number |-> <<>>, real_to_elapsed_time_offset_nanos |-> <<>>]
NoClock == [realtime |-> 0, monotonic |-> 0]

\* ----------------------------------------------------------------- helpers
RECURSIVE BitAnd(_, _)
BitAnd(a, b) ==
    IF a = 0 \/ b = 0 THEN 0
    ELSE (a % 2) * (b % 2) + 2 * BitAnd(a \div 2, b \div 2)

flagIsSet(flags) == BitAnd(mFlags, flags) = flags

RECURSIVE SumSizes(_)
SumSizes(s) == IF s = <<>> THEN 0 ELSE Head(s).size + SumSizes(Tail(s))

\* ------------------------------------------------------------- RingBuffer
\* setSize: the capacity is replaced, the entries are left alone.
setSize(newSize) ==
    /\ mSizeInBytes' = newSize
    /\ UNCHANGED <<mStorage, mUsedInBytes>>

\* emplace: evict from the head while the entry does not fit; an entry that
\* does not fit in the emptied buffer is not stored.
RECURSIVE Evict(_, _, _, _)
Evict(storage, used, size, cap) ==
    IF used + size > cap /\ storage # <<>>
    THEN Evict(Tail(storage), used - Head(storage).size, size, cap)
    ELSE [storage |-> storage, used |-> used]

emplace(e) ==
    LET r == Evict(mStorage, mUsedInBytes, e.size, mSizeInBytes) IN
    /\ IF r.used + e.size > mSizeInBytes
       THEN /\ mStorage' = r.storage
            /\ mUsedInBytes' = r.used
       ELSE /\ mStorage' = Append(r.storage, e)
            /\ mUsedInBytes' = r.used + e.size
    /\ admitted' = Append(admitted, e)
    /\ UNCHANGED mSizeInBytes

\* Mutant: the entries are dropped but the running total is kept.
resetKeepsUsed ==
    /\ mStorage' = <<>>
    /\ admitted' = <<>>
    /\ UNCHANGED <<mUsedInBytes, mSizeInBytes>>

reset ==
    /\ mStorage' = <<>>
    /\ mUsedInBytes' = 0
    /\ admitted' = <<>>
    /\ UNCHANGED mSizeInBytes

\* writeToFile / appendToStream of the buffer: the entries oldest first; an
\* unwritable destination receives nothing.  The buffer is not changed.
Serialize(writable) ==
    IF writable THEN [status |-> "ok", entries |-> mStorage]
    ELSE [status |-> "fail", entries |-> <<>>]

\* ------------------------------------------------- createTraceFileProto
\* A uint64_t is kept as four 16-bit limbs, most significant first.
Limb == 65536

\* static_cast<uint64_t> of a signed value: x modulo 2^64.
ToUint64(x) ==
    IF x >= 0
    THEN <<0, 0, x \div Limb, x % Limb>>
    ELSE LET y == (0 - x) - 1
         IN  <<Limb - 1, Limb - 1, (Limb - 1) - (y \div Limb),
               (Limb - 1) - (y % Limb)>>

ShiftLeft32(u) == <<u[3], u[4], 0, 0>>

RECURSIVE BitOr(_, _)
BitOr(a, b) ==
    IF a = 0 THEN b
    ELSE IF b = 0 THEN a
    ELSE (IF a % 2 = 1 \/ b % 2 = 1 THEN 1 ELSE 0)
         + 2 * BitOr(a \div 2, b \div 2)

BitOr64(u, v) == [i \in 1..4 |-> BitOr(u[i], v[i])]

\* Mutant: the clocks are subtracted the other way round.
createTraceFileProtoSwapped(realtime, monotonic) ==
    [magic_number |->
         BitOr64(ShiftLeft32(ToUint64(MAGIC_NUMBER_H)), ToUint64(MAGIC_NUMBER_L)),
     real_to_elapsed_time_offset_nanos |-> ToUint64(monotonic - realtime)]

\* Lines 101-109, with the two clock readings of lines 105-106.
createTraceFileProto(realtime, monotonic) ==
    [magic_number |->
         BitOr64(ShiftLeft32(ToUint64(MAGIC_NUMBER_H)), ToUint64(MAGIC_NUMBER_L)),
     real_to_elapsed_time_offset_nanos |-> ToUint64(realtime - monotonic)]

\* LayersTraceFileProto fileProto = createTraceFileProto();
BuildFileProto(t) ==
    \E monotonic \in MonotonicClock :
        /\ clockRead' = [clockRead EXCEPT ![t] =
               [realtime |-> realtimeNow, monotonic |-> monotonic]]
        /\ fileProto' = [fileProto EXCEPT ![t] =
               createTraceFileProto(realtimeNow, monotonic)]

\* ------------------------------------------------------------------- Init
Constructed(flags) ==
    /\ realtimeNow = 9
    /\ frame = [time |-> 100, vsyncId |-> 7]
    /\ frameArg = [t \in Threads |-> NoFrame]
    /\ mEnabled = FALSE
    /\ mFlags = flags
    /\ mBufferSizeInBytes \in SizeInputs
    /\ mTraceLock = {}
    /\ mStorage = <<>>
    /\ mUsedInBytes = 0
    /\ mSizeInBytes = 0
    /\ pc = [t \in Threads |-> "idle"]
    /\ op = [t \in Threads |-> "none"]
    /\ ret = [t \in Threads |-> "none"]
    /\ visibleRegionDirty = [t \in Threads |-> FALSE]
    /\ entry = [t \in Threads |-> NoEntry]
    /\ flushed = [t \in Threads |-> NoFlush]
    /\ ticket = [t \in Threads |-> 0]
    /\ fileProto = [t \in Threads |-> NoProto]
    /\ clockRead = [t \in Threads |-> NoClock]
    /\ flagsRead = [t \in Threads |-> {}]
    /\ nextSeq = 0
    /\ admitted = <<>>
    /\ enableMark = 0
    /\ installedCap = 0
    /\ drainMark = 0

Init == \E flags \in FlagInputs : Constructed(flags)

\* -------------------------------------------------------- call and locking
PendingNotify == Cardinality({u \in Threads : op[u] = "notify" /\ pc[u] = "wait"})

Call(t, o) ==
    /\ pc[t] = "idle"
    /\ t # Control => o = "notify"
    /\ o = "notify" => nextSeq + PendingNotify < MaxNotify
    /\ pc' = [pc EXCEPT ![t] = "wait"]
    /\ op' = [op EXCEPT ![t] = o]
    /\ UNCHANGED <<ctl, buf, hist, locals, mTraceLock, ret>>
    /\ UNCHANGED env

\* Mutants of Acquire: one of the methods runs without taking the lock.
AcquireExcept(t, unlocked) ==
    /\ pc[t] = "wait"
    /\ IF op[t] = unlocked
       THEN UNCHANGED mTraceLock
       ELSE /\ mTraceLock = {}
            /\ mTraceLock' = {t}
    /\ pc' = [pc EXCEPT ![t] = "body"]
    /\ IF op[t] = "notify"
       THEN /\ nextSeq' = nextSeq + 1
            /\ ticket' = [ticket EXCEPT ![t] = nextSeq + 1]
       ELSE UNCHANGED <<nextSeq, ticket>>
    /\ UNCHANGED <<ctl, buf, op, ret, visibleRegionDirty, frameArg, entry, flushed,
                   header, admitted, enableMark, installedCap, drainMark>>
    /\ UNCHANGED <<env, flagsRead>>

AcquireDisableUnlocked(t) == AcquireExcept(t, "disable")

AcquireNotifyUnlocked(t) == AcquireExcept(t, "notify")

AcquireSetTraceFlagsUnlocked(t) == AcquireExcept(t, "setTraceFlags")

\* std::scoped_lock lock(mTraceLock)
Acquire(t) ==
    /\ pc[t] = "wait"
    /\ mTraceLock = {}
    /\ mTraceLock' = {t}
    /\ pc' = [pc EXCEPT ![t] = "body"]
    /\ IF op[t] = "notify"
       THEN /\ nextSeq' = nextSeq + 1
            /\ ticket' = [ticket EXCEPT ![t] = nextSeq + 1]
       ELSE UNCHANGED <<nextSeq, ticket>>
    /\ UNCHANGED <<ctl, buf, op, ret, visibleRegionDirty, frameArg, entry, flushed,
                   header, admitted, enableMark, installedCap, drainMark>>
    /\ UNCHANGED <<env, flagsRead>>

\* The method returns: the scoped_lock is destroyed and the locals die.
Release(t) ==
    /\ pc[t] = "ret"
    /\ mTraceLock' = mTraceLock \ {t}
    /\ pc' = [pc EXCEPT ![t] = "idle"]
    /\ op' = [op EXCEPT ![t] = "none"]
    /\ ret' = [ret EXCEPT ![t] = "none"]
    /\ visibleRegionDirty' = [visibleRegionDirty EXCEPT ![t] = FALSE]
    /\ frameArg' = [frameArg EXCEPT ![t] = NoFrame]
    /\ entry' = [entry EXCEPT ![t] = NoEntry]
    /\ flushed' = [flushed EXCEPT ![t] = NoFlush]
    /\ ticket' = [ticket EXCEPT ![t] = 0]
    /\ fileProto' = [fileProto EXCEPT ![t] = NoProto]
    /\ clockRead' = [clockRead EXCEPT ![t] = NoClock]
    /\ flagsRead' = [flagsRead EXCEPT ![t] = {}]
    /\ UNCHANGED <<ctl, buf, hist>>
    /\ UNCHANGED env

Return(t, v) ==
    /\ pc' = [pc EXCEPT ![t] = "ret"]
    /\ ret' = [ret EXCEPT ![t] = v]

InBody(t, o) == pc[t] = "body" /\ op[t] = o

\* ----------------------------------------------------------------- enable
\* Mutant: the buffer is resized before the enabled check.
enableAlwaysResizes(t) ==
    /\ InBody(t, "enable")
    /\ setSize(mBufferSizeInBytes)
    /\ IF mEnabled
       THEN /\ Return(t, "false")
            /\ UNCHANGED <<ctl, hist>>
       ELSE /\ mEnabled' = TRUE
            /\ enableMark' = nextSeq
            /\ installedCap' = mBufferSizeInBytes
            /\ Return(t, "true")
            /\ UNCHANGED <<mFlags, mBufferSizeInBytes, nextSeq, admitted,
                           drainMark>>
    /\ UNCHANGED <<mTraceLock, op, locals>>
    /\ UNCHANGED env

enable(t) ==
    /\ InBody(t, "enable")
    /\ IF mEnabled
       THEN /\ Return(t, "false")
            /\ UNCHANGED <<ctl, buf, hist>>
       ELSE /\ setSize(mBufferSizeInBytes)
            /\ mEnabled' = TRUE
            /\ enableMark' = nextSeq
            /\ installedCap' = mBufferSizeInBytes
            /\ Return(t, "true")
            /\ UNCHANGED <<mFlags, mBufferSizeInBytes, nextSeq, admitted,
                           drainMark>>
    /\ UNCHANGED <<mTraceLock, op, locals>>
    /\ UNCHANGED env

\* ---------------------------------------------------------------- disable
\* Lines 50-58: the check, mEnabled = false and the optional write.
disable(t) ==
    /\ InBody(t, "disable")
    /\ IF ~mEnabled
       THEN /\ Return(t, "false")
            /\ UNCHANGED <<ctl, flushed, header>>
       ELSE /\ mEnabled' = FALSE
            /\ \E writeToFile \in BOOLEAN, writable \in BOOLEAN :
                   /\ flushed' = [flushed EXCEPT ![t] =
                          IF writeToFile THEN Serialize(writable) ELSE NoFlush]
                   /\ IF writeToFile THEN BuildFileProto(t)
                      ELSE UNCHANGED header
            /\ pc' = [pc EXCEPT ![t] = "reset"]
            /\ UNCHANGED <<mFlags, mBufferSizeInBytes, ret>>
    /\ UNCHANGED <<mTraceLock, buf, hist, op, visibleRegionDirty, frameArg, entry, ticket>>
    /\ UNCHANGED <<env, flagsRead>>

\* Mutant: a failed write makes disable return false before the reset.
disableStopsOnWriteFailure(t) ==
    /\ pc[t] = "reset" /\ op[t] = "disable"
    /\ IF flushed[t].status = "fail"
       THEN /\ Return(t, "false")
            /\ UNCHANGED <<buf, admitted>>
       ELSE /\ reset
            /\ Return(t, "true")
    /\ UNCHANGED <<ctl, mTraceLock, op, locals, nextSeq, enableMark, installedCap,
                   drainMark>>
    /\ UNCHANGED env

\* Mutant: the buffer is not reset.
disableWithoutReset(t) ==
    /\ pc[t] = "reset" /\ op[t] = "disable"
    /\ Return(t, "true")
    /\ UNCHANGED <<ctl, buf, hist, mTraceLock, op, locals>>
    /\ UNCHANGED env

\* Lines 59-60: mBuffer->reset(); return true.
disableReset(t) ==
    /\ pc[t] = "reset" /\ op[t] = "disable"
    /\ reset
    /\ Return(t, "true")
    /\ UNCHANGED <<ctl, mTraceLock, op, locals, nextSeq, enableMark, installedCap,
                   drainMark>>
    /\ UNCHANGED env

\* ---------------------------------------------------------- appendToStream
\* Lines 65-66: the header and the entries go to the stream.
appendToStream(t) ==
    /\ InBody(t, "appendToStream")
    /\ BuildFileProto(t)
    /\ flushed' = [flushed EXCEPT ![t] = Serialize(TRUE)]
    /\ pc' = [pc EXCEPT ![t] = "reset"]
    /\ UNCHANGED <<ctl, buf, hist, mTraceLock, op, ret, visibleRegionDirty, frameArg,
                   entry, ticket>>
    /\ UNCHANGED <<env, flagsRead>>

\* Mutant: the stream is written and the buffer is kept.
appendToStreamWithoutReset(t) ==
    /\ pc[t] = "reset" /\ op[t] = "appendToStream"
    /\ Return(t, "void")
    /\ UNCHANGED <<ctl, buf, mTraceLock, op, locals, nextSeq, admitted, enableMark,
                   installedCap>>
    /\ UNCHANGED env

\* Line 67: mBuffer->reset().
appendToStreamReset(t) ==
    /\ pc[t] = "reset" /\ op[t] = "appendToStream"
    /\ reset
    /\ Return(t, "void")
    /\ UNCHANGED <<ctl, mTraceLock, op, locals, nextSeq, enableMark, installedCap>>
    /\ UNCHANGED env

\* History of the drains: the newest entry that an appendToStream has written
\* and removed.
MarkDrained(t) ==
    drainMark' = IF flushed[t].entries = <<>> THEN drainMark
                 ELSE flushed[t].entries[Len(flushed[t].entries)].seq

\* --------------------------------------------------------------- isEnabled
isEnabled(t) ==
    /\ InBody(t, "isEnabled")
    /\ Return(t, IF mEnabled THEN "true" ELSE "false")
    /\ UNCHANGED <<ctl, buf, hist, mTraceLock, op, locals>>
    /\ UNCHANGED env

\* ------------------------------------------------------------- writeToFile
\* Mutant: the buffer is reset after the write, as appendToStream does.
writeToFileThenReset(t) ==
    /\ InBody(t, "writeToFile")
    /\ IF ~mEnabled
       THEN /\ Return(t, "STATUS_OK")
            /\ UNCHANGED <<flushed, header, buf, admitted>>
       ELSE /\ \E writable \in BOOLEAN :
                /\ flushed' = [flushed EXCEPT ![t] = Serialize(writable)]
                /\ Return(t, IF writable THEN "STATUS_OK" ELSE "ERROR")
            /\ BuildFileProto(t)
            /\ reset
    /\ UNCHANGED <<ctl, nextSeq, enableMark, installedCap, drainMark,
                   mTraceLock, op, visibleRegionDirty, frameArg, entry, ticket>>
    /\ UNCHANGED <<env, flagsRead>>

\* Mutant: the enabled check is missing.
writeToFileUnchecked(t) ==
    /\ InBody(t, "writeToFile")
    /\ \E writable \in BOOLEAN :
        /\ flushed' = [flushed EXCEPT ![t] = Serialize(writable)]
        /\ Return(t, IF writable THEN "STATUS_OK" ELSE "ERROR")
    /\ BuildFileProto(t)
    /\ UNCHANGED <<ctl, buf, hist, mTraceLock, op, visibleRegionDirty, frameArg, entry,
                   ticket>>
    /\ UNCHANGED <<env, flagsRead>>

writeToFile(t) ==
    /\ InBody(t, "writeToFile")
    /\ IF ~mEnabled
       THEN /\ Return(t, "STATUS_OK")
            /\ UNCHANGED <<flushed, header>>
       ELSE /\ BuildFileProto(t)
            /\ \E writable \in BOOLEAN :
                /\ flushed' = [flushed EXCEPT ![t] = Serialize(writable)]
                /\ Return(t, IF writable THEN "STATUS_OK" ELSE "ERROR")
    /\ UNCHANGED <<ctl, buf, hist, mTraceLock, op, visibleRegionDirty, frameArg, entry,
                   ticket>>
    /\ UNCHANGED <<env, flagsRead>>

\* ----------------------------------------------------------- setTraceFlags
setTraceFlags(t) ==
    /\ InBody(t, "setTraceFlags")
    /\ \E flags \in FlagInputs : mFlags' = flags
    /\ Return(t, "void")
    /\ UNCHANGED <<mEnabled, mBufferSizeInBytes, buf, hist, mTraceLock, op,
                   locals>>
    /\ UNCHANGED env

\* ---------------------------------------------------------------- getFlags
\* Lines 97-99: the method has no scoped_lock; its caller goes straight to
\* the read.
getFlagsCall(t) ==
    /\ pc[t] = "idle"
    /\ pc' = [pc EXCEPT ![t] = "body"]
    /\ op' = [op EXCEPT ![t] = "getFlags"]
    /\ UNCHANGED <<ctl, buf, hist, locals, mTraceLock, ret>>
    /\ UNCHANGED env

\* What an unsynchronized read of mFlags can return: the field's value, or,
\* while another thread is at the write of line 86, any value being written.
FlagsSeenBy(t) ==
    IF \E u \in Threads \ {t} : InBody(u, "setTraceFlags")
    THEN FlagInputs \cup {mFlags}
    ELSE {mFlags}

\* Line 98: return mFlags.
getFlags(t) ==
    /\ InBody(t, "getFlags")
    /\ \E flags \in FlagsSeenBy(t) :
           flagsRead' = [flagsRead EXCEPT ![t] = {flags}]
    /\ Return(t, "flags")
    /\ UNCHANGED <<ctl, buf, hist, mTraceLock, op, visibleRegionDirty, frameArg, entry,
                   flushed, ticket, header>>
    /\ UNCHANGED env

\* ----------------------------------------------------------- setBufferSize
\* Mutant: the new size is applied to the running buffer at once.
setBufferSizeResizesNow(t) ==
    /\ InBody(t, "setBufferSize")
    /\ \E bufferSizeInBytes \in SizeInputs :
           /\ mBufferSizeInBytes' = bufferSizeInBytes
           /\ setSize(bufferSizeInBytes)
    /\ Return(t, "void")
    /\ UNCHANGED <<mEnabled, mFlags, hist, mTraceLock, op, locals>>
    /\ UNCHANGED env

setBufferSize(t) ==
    /\ InBody(t, "setBufferSize")
    /\ \E bufferSizeInBytes \in SizeInputs :
           mBufferSizeInBytes' = bufferSizeInBytes
    /\ Return(t, "void")
    /\ UNCHANGED <<mEnabled, mFlags, buf, hist, mTraceLock, op, locals>>
    /\ UNCHANGED env

\* -------------------------------------------------------------------- dump
dump(t) ==
    /\ InBody(t, "dump")
    /\ Return(t, IF mEnabled THEN "enabled" ELSE "disabled")
    /\ UNCHANGED <<ctl, buf, hist, mTraceLock, op, locals>>
    /\ UNCHANGED env

\* ------------------------------------------------------------------ notify
\* Mutant: notify takes mTraceLock a second time, as it would if flagIsSet
\* locked: it goes on only once the lock is free.
notifyFlagIsSetLocks(t) ==
    /\ InBody(t, "notify")
    /\ mTraceLock = {}
    /\ pc' = [pc EXCEPT ![t] = "build"]
    /\ UNCHANGED <<ctl, buf, hist, mTraceLock, op, ret, locals>>
    /\ UNCHANGED env

\* Mutant: the enabled check is missing.
notifyWithoutEnabledCheck(t) ==
    /\ InBody(t, "notify")
    /\ \E dirty \in BOOLEAN :
        /\ visibleRegionDirty' = [visibleRegionDirty EXCEPT ![t] = dirty]
        /\ frameArg' = [frameArg EXCEPT ![t] = frame]
        /\ IF ~dirty /\ ~flagIsSet(TRACE_BUFFERS)
           THEN Return(t, "void")
           ELSE /\ pc' = [pc EXCEPT ![t] = "build"]
                /\ UNCHANGED ret
    /\ UNCHANGED <<ctl, buf, hist, mTraceLock, op, entry, flushed, ticket,
                   header>>
    /\ UNCHANGED <<env, flagsRead>>

\* Mutant: the filter is written with || for &&.
notifyFilterOr(t) ==
    /\ InBody(t, "notify")
    /\ \E dirty \in BOOLEAN :
        /\ visibleRegionDirty' = [visibleRegionDirty EXCEPT ![t] = dirty]
        /\ frameArg' = [frameArg EXCEPT ![t] = frame]
        /\ IF ~mEnabled
           THEN Return(t, "void")
           ELSE IF ~dirty \/ ~flagIsSet(TRACE_BUFFERS)
           THEN Return(t, "void")
           ELSE /\ pc' = [pc EXCEPT ![t] = "build"]
                /\ UNCHANGED ret
    /\ UNCHANGED <<ctl, buf, hist, mTraceLock, op, entry, flushed, ticket,
                   header>>
    /\ UNCHANGED <<env, flagsRead>>

\* Lines 121-127: the two early returns.
notify(t) ==
    /\ InBody(t, "notify")
    /\ \E dirty \in BOOLEAN :
        /\ visibleRegionDirty' = [visibleRegionDirty EXCEPT ![t] = dirty]
        /\ frameArg' = [frameArg EXCEPT ![t] = frame]
        /\ IF ~mEnabled
           THEN Return(t, "void")
           ELSE IF ~dirty /\ ~flagIsSet(TRACE_BUFFERS)
           THEN Return(t, "void")
           ELSE /\ pc' = [pc EXCEPT ![t] = "build"]
                /\ UNCHANGED ret
    /\ UNCHANGED <<ctl, buf, hist, mTraceLock, op, entry, flushed, ticket,
                   header>>
    /\ UNCHANGED <<env, flagsRead>>

\* Mutant: the two flag tests of the entry are exchanged.
notifyBuildFlagsExchanged(t) ==
    /\ pc[t] = "build" /\ op[t] = "notify"
    /\ \E size \in EntrySizes :
           entry' = [entry EXCEPT ![t] =
               [seq |-> ticket[t],
                size |-> size,
                where |-> IF visibleRegionDirty[t] THEN "visibleRegionsDirty"
                          ELSE "bufferLatched",
                hwc_blob |-> ~flagIsSet(TRACE_COMPOSITION),
                excludes_composition_state |-> flagIsSet(TRACE_HWC),
                elapsed_realtime_nanos |-> frameArg[t].time,
                vsync_id |-> frameArg[t].vsyncId]]
    /\ pc' = [pc EXCEPT ![t] = "emplace"]
    /\ UNCHANGED <<ctl, buf, hist, mTraceLock, op, ret, visibleRegionDirty, frameArg,
                   flushed, ticket, header>>
    /\ UNCHANGED <<env, flagsRead>>

\* Lines 130-143: the entry is built; its serialized size is the payload's.
notifyBuild(t) ==
    /\ pc[t] = "build" /\ op[t] = "notify"
    /\ \E size \in EntrySizes :
           entry' = [entry EXCEPT ![t] =
               [seq |-> ticket[t],
                size |-> size,
                where |-> IF visibleRegionDirty[t] THEN "visibleRegionsDirty"
                          ELSE "bufferLatched",
                hwc_blob |-> flagIsSet(TRACE_HWC),
                excludes_composition_state |-> ~flagIsSet(TRACE_COMPOSITION),
                elapsed_realtime_nanos |-> frameArg[t].time,
                vsync_id |-> frameArg[t].vsyncId]]
    /\ pc' = [pc EXCEPT ![t] = "emplace"]
    /\ UNCHANGED <<ctl, buf, hist, mTraceLock, op, ret, visibleRegionDirty, frameArg,
                   flushed, ticket, header>>
    /\ UNCHANGED <<env, flagsRead>>

\* Line 144: mBuffer->emplace(std::move(entry)).
notifyEmplace(t) ==
    /\ pc[t] = "emplace" /\ op[t] = "notify"
    /\ emplace(entry[t])
    /\ Return(t, "void")
    /\ UNCHANGED <<ctl, mTraceLock, op, locals, nextSeq, enableMark, installedCap,
                   drainMark>>
    /\ UNCHANGED env

\* The environment: the wall clock is set, the compositor starts a new frame.
prog == <<ctl, buf, hist, locals, mTraceLock, pc, op, ret>>

ClockSet ==
    /\ realtimeNow' \in RealtimeClock \ {realtimeNow}
    /\ UNCHANGED <<frame, prog>>

NewFrame ==
    /\ frame' \in FrameInputs \ {frame}
    /\ UNCHANGED <<realtimeNow, prog>>

Next ==
    \E t \in Threads :
        \/ \E o \in Ops : Call(t, o)
        \/ Acquire(t)
        \/ Release(t)
        \/ enable(t)
        \/ disable(t)
        \/ disableReset(t)
        \/ appendToStream(t)
        \/ appendToStreamReset(t) /\ UNCHANGED drainMark
        \/ isEnabled(t)
        \/ writeToFile(t)
        \/ setTraceFlags(t)
        \/ setBufferSize(t)
        \/ dump(t)
        \/ notify(t)
        \/ notifyBuild(t)
        \/ notifyEmplace(t)

Spec == Init /\ [][Next]_vars

\* Fair scheduling of the threads: a thread that can run its next statement,
\* or take a lock that stays free, does so.  std::mutex promises no more: it
\* does not promise the lock to a waiter that others overtake.
Step(t) ==
    \/ Release(t)
    \/ enable(t)
    \/ disable(t)
    \/ disableReset(t)
    \/ appendToStream(t)
    \/ appendToStreamReset(t) /\ UNCHANGED drainMark
    \/ isEnabled(t)
    \/ writeToFile(t)
    \/ setTraceFlags(t)
    \/ setBufferSize(t)
    \/ dump(t)
    \/ notify(t)
    \/ notifyBuild(t)
    \/ notifyEmplace(t)

Fairness == \A t \in Threads : WF_vars(Acquire(t)) /\ WF_vars(Step(t))

\* A lock that is fair to its waiters: a thread that finds it free again and
\* again gets it.
FairLock == \A t \in Threads : SF_vars(Acquire(t))

SpecFair == Init /\ [][Next]_vars /\ Fairness

\* The methods that record, flush and drain, with the history of the drains.
DrainOps == {"enable", "disable", "appendToStream", "writeToFile",
             "setBufferSize", "notify"}

NextDrain ==
    \E t \in Threads :
        \/ \E o \in DrainOps : Call(t, o)
        \/ Acquire(t)
        \/ Release(t)
        \/ enable(t)
        \/ disable(t)
        \/ disableReset(t)
        \/ appendToStream(t)
        \/ appendToStreamReset(t) /\ MarkDrained(t)
        \/ writeToFile(t)
        \/ setBufferSize(t)
        \/ notify(t)
        \/ notifyBuild(t)
        \/ notifyEmplace(t)

SpecDrain == Init /\ [][NextDrain]_vars

\* The flushing methods while the wall clock is being set.
ClockOps == {"enable", "disable", "appendToStream", "writeToFile", "notify"}

NextClocks ==
    \/ ClockSet
    \/ \E t \in Threads :
        \/ \E o \in ClockOps : Call(t, o)
        \/ Acquire(t)
        \/ Release(t)
        \/ enable(t)
        \/ disable(t)
        \/ disableReset(t)
        \/ appendToStream(t)
        \/ appendToStreamReset(t) /\ UNCHANGED drainMark
        \/ writeToFile(t)
        \/ notify(t)
        \/ notifyBuild(t)
        \/ notifyEmplace(t)

SpecClocks == Init /\ [][NextClocks]_vars

\* getFlags() beside the methods that read and write the flags under the
\* lock; the producers call it while the control thread sets the flags.
RaceOps == {"enable", "setTraceFlags", "notify"}

NextRace ==
    \E t \in Threads :
        \/ \E o \in RaceOps : Call(t, o)
        \/ Acquire(t)
        \/ Release(t)
        \/ enable(t)
        \/ setTraceFlags(t)
        \/ notify(t)
        \/ notifyBuild(t)
        \/ notifyEmplace(t)
        \/ t \in Producers /\ getFlagsCall(t)
        \/ getFlags(t)

SpecRace == Init /\ [][NextRace]_vars

\* The recording methods while the compositor moves from frame to frame,
\* started with each combination of the flags that shape an entry.
FrameOps == {"enable", "notify"}

NextFrames ==
    \/ NewFrame
    \/ \E t \in Threads :
        \/ \E o \in FrameOps : Call(t, o)
        \/ Acquire(t)
        \/ Release(t)
        \/ enable(t)
        \/ notify(t)
        \/ notifyBuild(t)
        \/ notifyEmplace(t)

InitFrames == \E flags \in FrameFlagInputs : Constructed(flags)

SpecFrames == InitFrames /\ [][NextFrames]_vars


\* ------------------------------------------------------------ properties
BodyPcs == {"body", "build", "emplace", "reset", "ret"}

Seqs(s) == [i \in DOMAIN s |-> s[i].seq]

StrictlyIncreasing(s) == \A i, j \in DOMAIN s : i < j => s[i] < s[j]

\* C1: mutual exclusion.  A thread that is inside the body of any method
\* (from its first read of the state to its return) holds mTraceLock, and it
\* is the only holder; so no two bodies overlap, a notify never overlaps a
\* control method.
C1_MutualExclusion ==
    /\ \A t \in Threads : pc[t] \in BodyPcs => mTraceLock = {t}
    /\ \A t, u \in Threads :
           pc[t] \in BodyPcs /\ pc[u] \in BodyPcs => t = u

\* A producer is appending under the lock while the control thread has
\* called disable and waits for the lock.
C1_Witness ==
    /\ pc[Control] = "wait" /\ op[Control] = "disable"
    /\ \E p \in Producers : pc[p] = "emplace" /\ mTraceLock = {p}

\* C2: every flush writes the retained entries in the order in which their
\* notify calls took the lock (ticket order), oldest first, each exactly once
\* and whole.
C2_FlushOrder ==
    \A t \in Threads :
        flushed[t].status = "ok" =>
            /\ StrictlyIncreasing(Seqs(flushed[t].entries))
            /\ (pc[t] = "reset" \/ op[t] = "writeToFile")
                   => flushed[t].entries = mStorage

\* A flush of two entries whose notify calls came from different threads.
C2_Witness ==
    \E t \in Threads :
        /\ flushed[t].status = "ok"
        /\ Len(flushed[t].entries) >= 2
        /\ nextSeq >= 2
        /\ mStorage = flushed[t].entries

\* C3: byte budget.  Whenever no method holds the lock, the used bytes of the
\* buffer are at most the capacity that the most recent successful enable()
\* installed.
C3_ByteBudget == mTraceLock = {} => mUsedInBytes <= installedCap

\* The buffer is full to the installed capacity with several entries, and
\* setBufferSize has since configured another size.
C3_Witness ==
    /\ mTraceLock = {}
    /\ installedCap > 0
    /\ mUsedInBytes = installedCap
    /\ Len(mStorage) >= 2
    /\ mBufferSizeInBytes > installedCap

FitCount(s, cap) ==
    LET n == Len(s)
        fits == {k \in 0..n : SumSizes(SubSeq(s, n - k + 1, n)) <= cap}
    IN  CHOOSE k \in fits : \A j \in fits : j <= k

LongestSuffixFit(s, cap) == SubSeq(s, Len(s) - FitCount(s, cap) + 1, Len(s))

\* C4: eviction is oldest-first.  The buffer holds exactly the longest suffix
\* of the entries emplaced since the last reset whose sizes sum to at most the
\* capacity.
C4_LongestSuffix == mStorage = LongestSuffixFit(admitted, mSizeInBytes)

\* Three entries of equal size in a buffer that has room for two of them: the
\* last two are retained.
C4_Witness ==
    /\ Len(admitted) = 3
    /\ \A i \in 1..3 : 2 * admitted[i].size <= mSizeInBytes
                       /\ 3 * admitted[i].size > mSizeInBytes
    /\ mStorage = SubSeq(admitted, 2, 3)
    /\ mUsedInBytes = mSizeInBytes

\* A thread takes the step that ends the given stage of the given method.
Leaves(t, o, stage) == op[t] = o /\ pc[t] = stage /\ pc'[t] # stage

\* C5: enable() returns false exactly when the controller is already
\* enabled, and then changes neither the controller nor the buffer (its
\* capacity included); otherwise it sets the buffer's capacity to the
\* configured size, marks the controller enabled and returns true.
C5_EnableContract ==
    [][\A t \in Threads :
         Leaves(t, "enable", "body") =>
            /\ pc'[t] = "ret"
            /\ ret'[t] \in {"true", "false"}
            /\ (ret'[t] = "false") <=> mEnabled
            /\ mEnabled => UNCHANGED <<ctl, buf>>
            /\ ~mEnabled =>
                  /\ mSizeInBytes' = mBufferSizeInBytes
                  /\ mEnabled'
                  /\ UNCHANGED <<mFlags, mBufferSizeInBytes>>]_vars

\* A second enable() has returned false while the buffer holds entries and
\* the configured size differs from the buffer's capacity.
C5_Witness ==
    \E t \in Threads :
        /\ op[t] = "enable" /\ pc[t] = "ret" /\ ret[t] = "false"
        /\ mEnabled
        /\ mStorage # <<>>
        /\ mBufferSizeInBytes # mSizeInBytes

\* C6: disable() returns false and changes nothing when the controller is
\* already disabled; otherwise it returns true whatever the write did, with
\* the controller disabled and the buffer empty.
C6_DisableContract ==
    [][\A t \in Threads :
         /\ Leaves(t, "disable", "body") =>
               IF mEnabled
               THEN pc'[t] = "reset" /\ ~mEnabled'
               ELSE /\ pc'[t] = "ret" /\ ret'[t] = "false"
                    /\ flushed'[t] = NoFlush
                    /\ UNCHANGED <<ctl, buf>>
         /\ Leaves(t, "disable", "reset") =>
               /\ pc'[t] = "ret" /\ ret'[t] = "true"
               /\ ~mEnabled'
               /\ mStorage' = <<>> /\ mUsedInBytes' = 0]_vars

\* disable() has returned true after its write to the destination failed,
\* and the controller is disabled with an empty buffer.
C6_Witness ==
    \E t \in Threads :
        /\ op[t] = "disable" /\ pc[t] = "ret" /\ ret[t] = "true"
        /\ flushed[t].status = "fail"
        /\ ~mEnabled /\ mStorage = <<>>
        /\ nextSeq > enableMark

\* C7: an enable() that returns true leaves an empty buffer, and no entry
\* whose notify took the lock before the last successful enable is in the
\* buffer or in anything a flush writes.
C7_EnableStartsEmpty ==
    /\ \A t \in Threads :
           op[t] = "enable" /\ pc[t] = "ret" /\ ret[t] = "true"
               => mStorage = <<>> /\ mUsedInBytes = 0
    /\ \A i \in DOMAIN mStorage : mStorage[i].seq > enableMark
    /\ \A t \in Threads : \A i \in DOMAIN flushed[t].entries :
           flushed[t].entries[i].seq > enableMark

\* After notify calls in an earlier recording, the controller was enabled
\* again and a flush writes entries of the new recording.
C7_Witness ==
    \E t \in Threads :
        /\ flushed[t].status = "ok"
        /\ flushed[t].entries # <<>>
        /\ enableMark >= 1
        /\ mEnabled

\* C8: writeToFile() while enabled leaves the controller enabled and the
\* buffer (entries, order, used bytes) unchanged whether the write succeeds
\* or fails, and only its return value tells the outcome; disable with
\* writeToFile = true leaves the buffer empty.
C8_WriteToFileKeepsBuffer ==
    [][\A t \in Threads :
         /\ Leaves(t, "writeToFile", "body") /\ mEnabled =>
               /\ pc'[t] = "ret"
               /\ UNCHANGED <<ctl, buf>>
               /\ flushed'[t].status \in {"ok", "fail"}
               /\ flushed'[t].status = "ok" => flushed'[t].entries = mStorage
               /\ ret'[t] = IF flushed'[t].status = "ok" THEN "STATUS_OK"
                            ELSE "ERROR"
         /\ Leaves(t, "disable", "reset") /\ flushed[t].status # "none" =>
               mStorage' = <<>> /\ mUsedInBytes' = 0]_vars

\* writeToFile() has failed while enabled and the buffer still holds its
\* entries.
C8_Witness ==
    \E t \in Threads :
        /\ op[t] = "writeToFile" /\ pc[t] = "ret" /\ ret[t] = "ERROR"
        /\ mEnabled
        /\ Len(mStorage) >= 2

\* C9: writeToFile() while disabled returns the success status, writes
\* nothing and changes neither the controller nor the buffer.
C9_WriteToFileDisabled ==
    [][\A t \in Threads :
         Leaves(t, "writeToFile", "body") /\ ~mEnabled =>
            /\ pc'[t] = "ret" /\ ret'[t] = "STATUS_OK"
            /\ flushed'[t] = NoFlush
            /\ UNCHANGED <<ctl, buf>>]_vars

\* writeToFile() has returned while the controller is disabled.
C9_Witness ==
    \E t \in Threads :
        /\ op[t] = "writeToFile" /\ pc[t] = "ret" /\ ret[t] = "STATUS_OK"
        /\ ~mEnabled
        /\ flushed[t] = NoFlush

\* The entry e becomes the newest entry and the older ones that remain are
\* a suffix of the former buffer.
AppendsOne(e) ==
    /\ mStorage' # <<>>
    /\ mStorage'[Len(mStorage')] = e
    /\ \E k \in 0..Len(mStorage) :
           mStorage' = Append(SubSeq(mStorage, k + 1, Len(mStorage)), e)

\* The steps of notify up to the emplace: the filter decides exactly as
\* stated, a filtered call changes nothing, and building the entry changes
\* nothing.
NotifyAdmission(t) ==
    /\ Leaves(t, "notify", "body") =>
          /\ pc'[t] = "build" <=>
                 mEnabled /\ (visibleRegionDirty'[t] \/ flagIsSet(TRACE_BUFFERS))
          /\ pc'[t] # "build" => pc'[t] = "ret"
          /\ UNCHANGED <<ctl, buf>>
    /\ Leaves(t, "notify", "build") =>
          pc'[t] = "emplace" /\ UNCHANGED <<ctl, buf>>

\* C10 as stated: notify appends exactly one entry if and only if the
\* controller is enabled and the event is significant or TRACE_BUFFERS is
\* set; in every other case it changes nothing.
C10_AppendsIffAdmitted ==
    [][\A t \in Threads :
         /\ NotifyAdmission(t)
         /\ Leaves(t, "notify", "emplace") =>
               /\ pc'[t] = "ret"
               /\ UNCHANGED <<ctl, mSizeInBytes>>
               /\ AppendsOne(entry[t])]_vars

\* C10 amended: notify hands exactly one entry to the buffer if and only if
\* the controller is enabled and the event is significant or TRACE_BUFFERS is
\* set, and the entry becomes the newest buffer entry unless it is larger than
\* the buffer's capacity, in which case the buffer ends empty without it; in
\* every other case notify changes nothing.
C10_AdmissionRule ==
    [][\A t \in Threads :
         /\ NotifyAdmission(t)
         /\ Leaves(t, "notify", "emplace") =>
               /\ pc'[t] = "ret"
               /\ UNCHANGED <<ctl, mSizeInBytes>>
               /\ admitted' = Append(admitted, entry[t])
               /\ IF entry[t].size <= mSizeInBytes
                  THEN AppendsOne(entry[t])
                  ELSE mStorage' = <<>> /\ mUsedInBytes' = 0]_vars

\* An insignificant event was admitted because TRACE_BUFFERS is set, and its
\* entry is the newest of the buffer.
C10_Witness ==
    \E t \in Threads :
        /\ op[t] = "notify" /\ pc[t] = "ret"
        /\ ~visibleRegionDirty[t]
        /\ entry[t] # NoEntry
        /\ mStorage # <<>>
        /\ mStorage[Len(mStorage)] = entry[t]

\* C11: setBufferSize() does not touch the buffer.  The buffer's capacity
\* changes only in an enable() that finds the controller disabled, which sets
\* it to the configured size; every emplace of a notify evicts against the
\* capacity that the last successful enable() installed.
C11_SizeAppliedAtEnable ==
    [][/\ \A t \in Threads :
              Leaves(t, "setBufferSize", "body") =>
                  pc'[t] = "ret" /\ UNCHANGED <<buf, mEnabled, mFlags>>
       /\ mSizeInBytes' # mSizeInBytes =>
              \E t \in Threads :
                  /\ Leaves(t, "enable", "body")
                  /\ ~mEnabled
                  /\ mSizeInBytes' = mBufferSizeInBytes
       /\ \A t \in Threads :
              Leaves(t, "notify", "emplace") =>
                  /\ mSizeInBytes = installedCap
                  /\ mUsedInBytes' <= installedCap]_vars

\* While enabled a larger size has been configured, and a notify has still
\* evicted older entries to stay within the capacity installed at enable().
C11_Witness ==
    \E t \in Threads :
        /\ op[t] = "notify" /\ pc[t] = "ret"
        /\ mEnabled
        /\ mBufferSizeInBytes > mSizeInBytes
        /\ mStorage # <<>>
        /\ Len(admitted) > Len(mStorage)
        /\ SumSizes(admitted) <= mBufferSizeInBytes

\* C14: used-byte accounting.  Whenever no method holds the lock, the
\* buffer's running total equals the sum of the sizes of the entries it holds.
C14_UsedBytesAccounting ==
    mTraceLock = {} => mUsedInBytes = SumSizes(mStorage)

\* After an eviction, then a reset and a re-enable with another capacity, the
\* buffer holds entries again.
C14_Witness ==
    /\ mTraceLock = {}
    /\ enableMark >= 1
    /\ Len(admitted) > Len(mStorage)
    /\ Len(mStorage) >= 1
    /\ mUsedInBytes > 0

\* C17: disabled implies empty.  Whenever no method holds the lock and the
\* controller is disabled, the buffer holds no entry and no used bytes.
C17_DisabledImpliesEmpty ==
    mTraceLock = {} /\ ~mEnabled => mStorage = <<>> /\ mUsedInBytes = 0

\* The controller has been disabled after notify calls of that recording,
\* with a producer's notify waiting for the lock.
C17_Witness ==
    /\ mTraceLock = {}
    /\ ~mEnabled
    /\ nextSeq > enableMark
    /\ installedCap > 0
    /\ \E p \in Producers : pc[p] = "wait"

Range(s) == {s[i] : i \in DOMAIN s}

\* The entries that the step takes out of the buffer.
Removed == Range(mStorage) \ Range(mStorage')

\* The flush of a thread that is about to reset holds exactly the buffer: no
\* notify has appended since the serialization.
FlushIsBuffer ==
    \A t \in Threads :
        pc[t] = "reset" /\ flushed[t].status = "ok"
            => flushed[t].entries = mStorage

\* The step is an emplace that evicts oldest-first.
RemovedByEviction ==
    \E t \in Threads :
        /\ Leaves(t, "notify", "emplace")
        /\ \E k \in 0..Len(mStorage) :
               LET kept == SubSeq(mStorage, k + 1, Len(mStorage))
               IN  mStorage' \in {kept, Append(kept, entry[t])}

\* The step is the reset after a flush that wrote every removed entry.
RemovedAfterFlush ==
    \E t \in Threads :
        /\ \/ Leaves(t, "appendToStream", "reset")
           \/ Leaves(t, "disable", "reset")
        /\ flushed[t].status = "ok"
        /\ Removed \subseteq Range(flushed[t].entries)

\* The step is the reset of a disable that was asked (or not) to write.
RemovedByDisable(status) ==
    \E t \in Threads :
        Leaves(t, "disable", "reset") /\ flushed[t].status = status

C19_OneFlagsSnapshot ==
    \A t \in Threads :
        op[t] = "notify" =>
            /\ pc[t] \in {"build", "emplace"} =>
                   visibleRegionDirty[t] \/ flagIsSet(TRACE_BUFFERS)
            /\ entry[t] # NoEntry =>
                   /\ visibleRegionDirty[t] \/ flagIsSet(TRACE_BUFFERS)
                   /\ entry[t].hwc_blob <=> flagIsSet(TRACE_HWC)
                   /\ entry[t].excludes_composition_state
                          <=> ~flagIsSet(TRACE_COMPOSITION)

\* A notify admitted by TRACE_BUFFERS alone has built its entry while a
\* setTraceFlags call waits for the lock.
C19_Witness ==
    \E t \in Producers :
        /\ op[t] = "notify" /\ pc[t] = "emplace"
        /\ ~visibleRegionDirty[t]
        /\ entry[t].hwc_blob
        /\ pc[Control] = "wait" /\ op[Control] = "setTraceFlags"

\* The flush of a method is in progress: it has written its output and has
\* not returned to its caller.
Flushing(t) ==
    /\ flushed[t].status = "ok"
    /\ pc[t] \in {"reset", "ret"}

MagicNumber == <<17731, 16722, 21586, 22860>>

OffsetMod2To64(realtime, monotonic) ==
    IF realtime >= monotonic
    THEN <<0, 0, 0, realtime - monotonic>>
    ELSE <<Limb - 1, Limb - 1, Limb - 1, Limb - (monotonic - realtime)>>

\* The step is the flush of one of the three flushing methods.
Flushes(t) ==
    \/ Leaves(t, "appendToStream", "body")
    \/ Leaves(t, "writeToFile", "body") /\ mEnabled
    \/ Leaves(t, "disable", "body") /\ mEnabled /\ flushed'[t] # NoFlush

\* C16: every flush builds its header in the step of the flush, under the
\* lock: the magic number is (MAGIC_NUMBER_H << 32) | MAGIC_NUMBER_L, and the
\* calibration field is the realtime clock as it is at that step minus the
\* monotonic clock read in it, modulo 2^64.  No header exists before the
\* flush (none is kept from enable or from an earlier flush), and no other
\* step builds or changes one.
C16_HeaderPerFlush ==
    [][\A t \in Threads :
         /\ Flushes(t) =>
                /\ mTraceLock = {t}
                /\ fileProto[t] = NoProto
                /\ clockRead'[t].realtime = realtimeNow
                /\ clockRead'[t].monotonic \in MonotonicClock
                /\ fileProto'[t].magic_number = MagicNumber
                /\ fileProto'[t].real_to_elapsed_time_offset_nanos =
                       OffsetMod2To64(realtimeNow, clockRead'[t].monotonic)
         /\ ~Flushes(t) /\ fileProto'[t] # fileProto[t] =>
                fileProto'[t] = NoProto]_vars

\* A writeToFile of a running trace after the wall clock was set back below
\* the monotonic clock: its header holds the negative difference modulo 2^64.
C16_Witness ==
    \E t \in Threads :
        /\ op[t] = "writeToFile" /\ pc[t] = "ret" /\ mEnabled
        /\ clockRead[t].realtime < clockRead[t].monotonic
        /\ fileProto[t].real_to_elapsed_time_offset_nanos =
               <<Limb - 1, Limb - 1, Limb - 1, Limb - 4>>
        /\ mStorage # <<>>

\* C15: the entry of an admitted notify.  Its discriminant is
\* "visibleRegionsDirty" when the event is significant and "bufferLatched"
\* otherwise; it has the diagnostic blob exactly when TRACE_HWC is set; it is
\* marked as excluding composition state exactly when TRACE_COMPOSITION is
\* not set; it carries the timestamp and the vsync id its caller passed,
\* whatever frame the compositor is at by then; and the entry the buffer
\* takes in is that entry.
C15_EntryConstruction ==
    [][\A t \in Threads :
         /\ Leaves(t, "notify", "build") =>
                /\ entry'[t].where = IF visibleRegionDirty[t]
                                     THEN "visibleRegionsDirty"
                                     ELSE "bufferLatched"
                /\ entry'[t].hwc_blob <=> BitAnd(mFlags, TRACE_HWC) = TRACE_HWC
                /\ entry'[t].excludes_composition_state <=>
                       BitAnd(mFlags, TRACE_COMPOSITION) # TRACE_COMPOSITION
                /\ entry'[t].elapsed_realtime_nanos = frameArg[t].time
                /\ entry'[t].vsync_id = frameArg[t].vsyncId
                /\ frameArg'[t] = frameArg[t]
         /\ Leaves(t, "notify", "emplace") /\ mStorage' # <<>> =>
                mStorage'[Len(mStorage')] = entry[t]]_vars

\* The buffer holds a significant event of one frame and a buffer latch of
\* the next, both with the diagnostic blob and marked as excluding
\* composition state, each with the time and the vsync id of its own frame.
C15_Witness ==
    /\ Len(mStorage) = 2
    /\ mStorage[1].where = "visibleRegionsDirty"
    /\ mStorage[2].where = "bufferLatched"
    /\ mStorage[1].vsync_id # mStorage[2].vsync_id
    /\ mStorage[1].elapsed_realtime_nanos # mStorage[2].elapsed_realtime_nanos
    /\ \A i \in 1..2 : mStorage[i].hwc_blob /\ mStorage[i].excludes_composition_state

\* A thread is at a statement that reads mFlags: the flagIsSet calls of
\* notify (lines 125, 136, 139) or the return of getFlags (line 98).
ReadsFlags(t) ==
    \/ op[t] = "notify" /\ pc[t] \in {"body", "build"}
    \/ op[t] = "getFlags" /\ pc[t] = "body"

\* A thread is at the assignment of setTraceFlags (line 86).
WritesFlags(t) == op[t] = "setTraceFlags" /\ pc[t] = "body"

\* C20 as stated: every access to mFlags, the read of getFlags() included,
\* is made by a thread that holds mTraceLock, so no read is at the field
\* while setTraceFlags is at its write.
C20_FlagsAccessUnderLock ==
    /\ \A t \in Threads : ReadsFlags(t) \/ WritesFlags(t) => mTraceLock = {t}
    /\ \A t, u \in Threads : ~(WritesFlags(t) /\ ReadsFlags(u))

\* A thread that waits for the lock does not hold it (no method takes the
\* lock it already holds), and a method runs only with the lock.
NoSelfAcquire ==
    \A t \in Threads :
        /\ pc[t] = "wait" => t \notin mTraceLock
        /\ pc[t] \in BodyPcs => mTraceLock = {t}

\* C12 as stated: under fair scheduling of the threads every call runs to
\* completion.  No method takes the lock it already holds, and every waiting
\* call ends with its thread back at its caller without the lock: it got
\* the lock, finished and released it.  No interleaving deadlocks and no
\* thread waits forever.
C12_RunsToCompletion ==
    /\ []NoSelfAcquire
    /\ \A t \in Threads : pc[t] = "wait" ~> (pc[t] = "idle" /\ t \notin mTraceLock)

\* C12 amended: under fair scheduling of the threads no method takes the
\* lock it already holds, every call that has the lock finishes and releases
\* it, and while calls wait one of them gets the lock, so no interleaving
\* deadlocks; a given call is sure to get the lock, and so to complete, when
\* the lock is also fair to its waiters.
C12_CompletesOnceLocked ==
    /\ []NoSelfAcquire
    /\ \A t \in Threads : mTraceLock = {t} ~> (pc[t] = "idle" /\ t \notin mTraceLock)
    /\ (\E t \in Threads : pc[t] = "wait") ~> (\E t \in Threads : pc[t] = "body")
    /\ FairLock =>
           \A t \in Threads : pc[t] = "wait" ~> (pc[t] = "idle" /\ t \notin mTraceLock)

\* A producer's notify and a call of the control thread wait for the lock
\* at the same time while the trace is running.
C12_Witness ==
    /\ mEnabled
    /\ mTraceLock = {}
    /\ \A t \in Threads : pc[t] = "wait"
    /\ mStorage # <<>>

====
